---- MODULE Spec2Model ----
(***************************************************************************)
(* Import/Export intelligence module: the perceive -> decide -> act        *)
(* pipeline of src/main.py and src/services.py, with the country           *)
(* normaliser of src/utils.py and the record models of src/models.py.      *)
(*                                                                         *)
(* Python strings are sequences of one-character strings, so that lower(), *)
(* strip(), concatenation and substring tests are computed, not assumed.   *)
(* Python None is the one-element sequence None; a float is Num(n) with n  *)
(* the value in thousandths, an int is Num(n) with n the value.            *)
(***************************************************************************)
EXTENDS Integers, Sequences, FiniteSets, TLC

VARIABLES
    pc,                 \* "call": a call is pending; "done": it returned; "idle": the server waits
    op,                 \* the operation called
    args,               \* its arguments and the outcomes of the external calls it makes
    ret,                \* what it returned or raised
    scraped_data_cache, \* ActAgent.scraped_data_cache: the links processed (its keys)
    requests,           \* /analyze-trade requests served so far
    hash_seed           \* the process's string-hash seed

vars == <<pc, op, args, ret, scraped_data_cache, requests, hash_seed>>

(***************************************************************************)
(* Bounds of the model.                                                    *)
(***************************************************************************)
MaxRequests == 2
MaxRecords == 2
MaxVolume == 2
MaxSeed == 1
MaxVariedLookups == 2

(***************************************************************************)
(* Python values.                                                          *)
(***************************************************************************)
None == <<"None">>

Num(n) == <<"#", n>>

IsNum(v) == Len(v) = 2 /\ v[1] = "#"

NumVal(v) == v[2]

\* bool(v) of an Optional[str]: None and "" are falsy.
Truthy(v) == v # None /\ v # <<>>

\* str(v) as an f-string renders it.
Fmt(v) == IF v = None THEN <<"N", "o", "n", "e">> ELSE v

UpperChars == <<"A", "B", "C", "D", "E", "F", "G", "H", "I", "J", "K", "L", "M",
                "N", "O", "P", "Q", "R", "S", "T", "U", "V", "W", "X", "Y", "Z">>

LowerChars == <<"a", "b", "c", "d", "e", "f", "g", "h", "i", "j", "k", "l", "m",
                "n", "o", "p", "q", "r", "s", "t", "u", "v", "w", "x", "y", "z">>

LowerOf == [c \in {UpperChars[i] : i \in 1..26} |->
               LowerChars[CHOOSE i \in 1..26 : UpperChars[i] = c]]

LowerChar(c) == IF c \in DOMAIN LowerOf THEN LowerOf[c] ELSE c

\* str.lower()
Lower(s) == IF s = <<>> THEN <<>> ELSE [i \in 1..Len(s) |-> LowerChar(s[i])]

Whitespace == {" ", "\t", "\n"}

RECURSIVE LStrip(_)
LStrip(s) ==
    IF s # <<>> /\ Head(s) \in Whitespace THEN LStrip(Tail(s)) ELSE s

RECURSIVE RStrip(_)
RStrip(s) ==
    IF s # <<>> /\ s[Len(s)] \in Whitespace
    THEN RStrip(SubSeq(s, 1, Len(s) - 1))
    ELSE s

\* str.strip()
Strip(s) == RStrip(LStrip(s))

\* sub in s
Contains(s, sub) ==
    \E i \in 1..(Len(s) - Len(sub) + 1) : SubSeq(s, i, i + Len(sub) - 1) = sub

(***************************************************************************)
(* utils.normalize_country_name                                            *)
(***************************************************************************)
S_USA == <<"U", "S", "A">>
S_Germany == <<"G", "e", "r", "m", "a", "n", "y">>
S_China == <<"C", "h", "i", "n", "a">>
S_Japan == <<"J", "a", "p", "a", "n">>
S_Brazil == <<"B", "r", "a", "z", "i", "l">>
S_Canada == <<"C", "a", "n", "a", "d", "a">>
S_Mexico == <<"M", "e", "x", "i", "c", "o">>
S_France == <<"F", "r", "a", "n", "c", "e">>
S_UK == <<"U", "K">>
S_India == <<"I", "n", "d", "i", "a">>
S_UnitedStates == <<"U", "n", "i", "t", "e", "d", " ", "S", "t", "a", "t", "e", "s">>
S_UnitedKingdom == <<"U", "n", "i", "t", "e", "d", " ", "K", "i", "n", "g", "d", "o", "m">>
S_EuropeanUnion == <<"E", "u", "r", "o", "p", "e", "a", "n", " ", "U", "n", "i", "o", "n">>

country_map ==
    { <<Lower(S_USA), S_UnitedStates>>,
      <<Lower(S_India), S_India>>,
      <<Lower(S_Germany), S_Germany>>,
      <<Lower(S_UK), S_UnitedKingdom>>,
      <<Lower(S_UnitedKingdom), S_UnitedKingdom>>,
      <<Lower(S_China), S_China>>,
      <<Lower(S_Japan), S_Japan>>,
      <<<<"e", "u">>, S_EuropeanUnion>> }

\* country_map.get(country_name.lower(), country_name), compared by raw name
normalize_raw(country_name) ==
    IF \E e \in country_map : e[1] = country_name
    THEN (CHOOSE e \in country_map : e[1] = country_name)[2]
    ELSE country_name

normalize_country_name(country_name) ==
    IF \E e \in country_map : e[1] = Lower(country_name)
    THEN (CHOOSE e \in country_map : e[1] = Lower(country_name))[2]
    ELSE country_name

(***************************************************************************)
(* models.ParsedQuery and the model reply parse_query validates            *)
(***************************************************************************)
S_import == <<"i", "m", "p", "o", "r", "t">>
S_export == <<"e", "x", "p", "o", "r", "t">>

\* ParsedQuery(): every field at its default
ParsedQueryDefault ==
    [hsn_code |-> None, product_name |-> None, country |-> None,
     intent |-> None, keywords |-> <<>>]

\* JSON values of a model reply, tagged by JSON type
JNull == [t |-> "null", v |-> <<>>]
JMissing == [t |-> "missing", v |-> <<>>]
JNumber == [t |-> "num", v |-> <<>>]
JStr(s) == [t |-> "str", v |-> s]
JList(l) == [t |-> "list", v |-> l]

\* Optional[str]: a string or null validates, a missing key takes the default
OptStrValid(j) == j.t \in {"str", "null", "missing"}

OptStrValue(j) == IF j.t = "str" THEN j.v ELSE None

\* List[str] = Field([]): a list of strings, or a missing key
StrListValid(j) ==
    \/ j.t = "missing"
    \/ j.t = "list" /\ \A i \in 1..Len(j.v) : j.v[i].t = "str"

StrListValue(j) ==
    IF j.t = "list" THEN [i \in 1..Len(j.v) |-> j.v[i].v] ELSE <<>>

ParsedQueryFields == {"hsn_code", "product_name", "country", "intent"}

\* ParsedQuery(**parsed_data) raises unless every field validates
ParsedQueryValid(obj) ==
    /\ \A f \in ParsedQueryFields : OptStrValid(obj[f])
    /\ StrListValid(obj.keywords)

ParsedQueryOf(obj) ==
    [hsn_code |-> OptStrValue(obj.hsn_code),
     product_name |-> OptStrValue(obj.product_name),
     country |-> OptStrValue(obj.country),
     intent |-> OptStrValue(obj.intent),
     keywords |-> StrListValue(obj.keywords)]

Returned(v) == [kind |-> "return", value |-> v]

Raised(e) == [kind |-> "raise", value |-> e]

\* parse_query with its except clauses removed: every failure propagates
parse_query_uncaught(reply) ==
    IF reply.kind = "error" THEN Raised(<<"A", "P", "I">>)
    ELSE IF reply.kind = "text" THEN Raised(<<"J", "S", "O", "N">>)
    ELSE IF reply.top # "object" \/ ~ParsedQueryValid(reply.obj)
         THEN Raised(<<"T", "y", "p", "e">>)
    ELSE Returned(ParsedQueryOf(reply.obj))

\* PerceiveAgent.parse_query: reply is the outcome of the model call
parse_query(reply) ==
    IF reply.kind = "error" THEN Returned(ParsedQueryDefault)
    ELSE IF reply.kind = "text" THEN Returned(ParsedQueryDefault)
    ELSE IF reply.top # "object" \/ ~ParsedQueryValid(reply.obj)
         THEN Returned(ParsedQueryDefault)
    ELSE Returned(ParsedQueryOf(reply.obj))

(***************************************************************************)
(* DecideAgent.decide_strategy                                             *)
(***************************************************************************)
S_HSN == <<"H", "S", "N", " ">>
S_import_data == <<"i", "m", "p", "o", "r", "t", " ", "d", "a", "t", "a", " ">>
S_export_data == <<"e", "x", "p", "o", "r", "t", " ", "d", "a", "t", "a", " ">>
S_trade_data == <<"t", "r", "a", "d", "e", " ", "d", "a", "t", "a", " ">>
S_from == <<"f", "r", "o", "m", " ">>
S_to == <<"t", "o", " ">>
S_open_source == <<"o", "p", "e", "n", " ", "s", "o", "u", "r", "c", "e", " ",
                   "s", "t", "a", "t", "i", "s", "t", "i", "c", "s">>
S_UNComtrade == <<"U", "N", " ", "C", "o", "m", "t", "r", "a", "d", "e", " ",
                  "H", "S", "N", " ">>
S_Eurostat == <<"E", "U", " ", "E", "u", "r", "o", "s", "t", "a", "t", " ",
                "H", "S", "N", " ">>
S_USCensus == <<"U", "S", " ", "C", "e", "n", "s", "u", "s", " ", "B", "u", "r",
                "e", "a", "u", " ", "H", "S", "N", " ">>
S_DGFT == <<"D", "G", "F", "T">>
S_DGFTIndia == <<"D", "G", "F", "T", " ", "I", "n", "d", "i", "a", " ",
                 "H", "S", "N", " ">>
S_data == <<" ", "d", "a", "t", "a">>
S_statistics == <<" ", "s", "t", "a", "t", "i", "s", "t", "i", "c", "s">>
S_space == <<" ">>

\* lines 91-107 with the country phrase before the intent word
base_query_country_first(parsed_query) ==
    (IF Truthy(parsed_query.hsn_code)
     THEN S_HSN \o parsed_query.hsn_code \o S_space ELSE <<>>)
    \o (IF Truthy(parsed_query.product_name)
        THEN parsed_query.product_name \o S_space ELSE <<>>)
    \o (IF Truthy(parsed_query.country)
        THEN (IF parsed_query.intent = S_export THEN S_from ELSE S_to)
             \o parsed_query.country \o S_space
        ELSE <<>>)
    \o (IF parsed_query.intent = S_import THEN S_import_data
        ELSE IF parsed_query.intent = S_export THEN S_export_data
        ELSE S_trade_data)
    \o S_open_source

base_query(parsed_query) ==
    (IF Truthy(parsed_query.hsn_code)
     THEN S_HSN \o parsed_query.hsn_code \o S_space ELSE <<>>)
    \o (IF Truthy(parsed_query.product_name)
        THEN parsed_query.product_name \o S_space ELSE <<>>)
    \o (IF parsed_query.intent = S_import THEN S_import_data
        ELSE IF parsed_query.intent = S_export THEN S_export_data
        ELSE S_trade_data)
    \o (IF Truthy(parsed_query.country)
        THEN (IF parsed_query.intent = S_export THEN S_from ELSE S_to)
             \o parsed_query.country \o S_space
        ELSE <<>>)
    \o S_open_source

\* the India test of line 115 comparing the raw country
is_india_raw(parsed_query) ==
    Truthy(parsed_query.country) /\ parsed_query.country = S_India

is_india(parsed_query) ==
    /\ Truthy(parsed_query.country)
    /\ normalize_country_name(parsed_query.country) = S_India

source_queries(parsed_query) ==
    IF Truthy(parsed_query.hsn_code)
    THEN << S_UNComtrade \o parsed_query.hsn_code,
            S_Eurostat \o parsed_query.hsn_code \o S_space
                \o Fmt(parsed_query.intent) \o S_data,
            S_USCensus \o parsed_query.hsn_code \o S_space
                \o Fmt(parsed_query.intent) \o S_statistics >>
         \o (IF is_india(parsed_query)
             THEN << S_DGFTIndia \o parsed_query.hsn_code \o S_space
                         \o Fmt(parsed_query.intent) \o S_data >>
             ELSE <<>>)
    ELSE <<>>

decide_strategy(parsed_query) ==
    <<Strip(base_query(parsed_query))>> \o source_queries(parsed_query)

(***************************************************************************)
(* models.TradeDataRecord: field names in declaration order, with the      *)
(* alias each is exported under (the field name itself when it has none).  *)
(***************************************************************************)
TradeDataFields ==
    << <<"country", "country">>,
       <<"volume_usd", "volume_usd">>,
       <<"volume_unit", "volume_unit">>,
       <<"unit", "unit">>,
       <<"year", "year">>,
       <<"source", "source">>,
       <<"hscode", "HS Code">>,
       <<"product_description", "Product Description">>,
       <<"hs_product_description", "HS Product Description">>,
       <<"shipper_name", "Shipper Name">>,
       <<"consignee_name", "Consignee Name">>,
       <<"std_quantity", "Standard Quantity">>,
       <<"std_unit", "Standard Unit">>,
       <<"country_of_destination", "Country of Destination">>,
       <<"package_type", "Package Type">>,
       <<"country_of_origin", "Country of Origin">>,
       <<"quantity", "Quantity">>,
       <<"bill_of_lading_no", "Bill of Lading No">>,
       <<"consignee_address", "Consignee Address">>,
       <<"supplier_address", "Supplier Address">>,
       <<"container_teu", "Container TEU">>,
       <<"port_of_origin", "Port of Origin">>,
       <<"port_of_destination", "Port of Destination">>,
       <<"port_of_delivery", "Port of Delivery">>,
       <<"gross_weight", "Gross Weight">>,
       <<"measurement", "Measurement">>,
       <<"freight_term", "Freight Term">>,
       <<"forwarder_name", "Forwarder Name">>,
       <<"declarant_name", "Declarant Name">>,
       <<"notify_party_address", "Notify Party Address">>,
       <<"declarant_name_2", "Declarant Name 2">>,
       <<"marks_number", "Marks Number">>,
       <<"contact_number_booking", "Contact Number Booking">>,
       <<"contact_email_booking", "Contact Email Booking">> >>

NumFields == Len(TradeDataFields)

FieldNames == {TradeDataFields[i][1] : i \in 1..NumFields}

FieldName(i) == TradeDataFields[i][1]

\* model_fields[field].alias or field
FieldAlias(i) == TradeDataFields[i][2]

\* TradeDataRecord(): every field None
EmptyRecord == [f \in FieldNames |-> None]

\* TradeDataRecord(**data): the fields given, None elsewhere
TradeDataRecord(data) ==
    [f \in FieldNames |-> IF f \in DOMAIN data THEN data[f] ELSE None]

(***************************************************************************)
(* ActAgent._simulate_scrape_from_url                                      *)
(***************************************************************************)
\* the string literals of lines 190-222
ScrapeText ==
    [ kg |-> <<"k", "g">>,
      units |-> <<"u", "n", "i", "t", "s">>,
      tons |-> <<"t", "o", "n", "s">>,
      Pieces |-> <<"P", "i", "e", "c", "e", "s">>,
      Pallets |-> <<"P", "a", "l", "l", "e", "t", "s">>,
      Cartons |-> <<"C", "a", "r", "t", "o", "n", "s">>,
      Boxes |-> <<"B", "o", "x", "e", "s">>,
      FOB |-> <<"F", "O", "B">>,
      CIF |-> <<"C", "I", "F">>,
      EXW |-> <<"E", "X", "W">>,
      Generic |-> <<"G", "e", "n", "e", "r", "i", "c", " ">>,
      Product |-> <<"P", "r", "o", "d", "u", "c", "t">>,
      DescriptionFor |-> <<"D", "e", "s", "c", "r", "i", "p", "t", "i", "o", "n", " ", "f", "o", "r", " ", "H", "S", "N", " ">>,
      unknown |-> <<"u", "n", "k", "n", "o", "w", "n">>,
      Shipper |-> <<"S", "h", "i", "p", "p", "e", "r", "_">>,
      Inc |-> <<" ", "I", "n", "c", ".">>,
      Consignee |-> <<"C", "o", "n", "s", "i", "g", "n", "e", "e", "_">>,
      Co |-> <<" ", "C", "o", ".">>,
      BL |-> <<"B", "L", "-">>,
      MainSt |-> <<"1", "2", "3", " ", "M", "a", "i", "n", " ", "S", "t", ",", " ">>,
      TradeRd |-> <<"4", "5", "6", " ", "T", "r", "a", "d", "e", " ", "R", "d", ",", " ">>,
      Global |-> <<"G", "l", "o", "b", "a", "l">>,
      Port |-> <<"P", "o", "r", "t", " ">>,
      CBM |-> <<" ", "C", "B", "M">>,
      Forwarder |-> <<"F", "o", "r", "w", "a", "r", "d", "e", "r", " ">>,
      Logistics |-> <<"L", "o", "g", "i", "s", "t", "i", "c", "s">>,
      Declarant |-> <<"D", "e", "c", "l", "a", "r", "a", "n", "t", " ">>,
      RecvBlvd |-> <<"7", "8", "9", " ", "R", "e", "c", "v", " ", "B", "l", "v", "d", ",", " ">>,
      MN |-> <<"M", "N", "-">>,
      plus1 |-> <<"+", "1">>,
      booking |-> <<"b", "o", "o", "k", "i", "n", "g">>,
      example |-> <<"@", "e", "x", "a", "m", "p", "l", "e", ".", "c", "o", "m">>,
      SimulatedSource |-> <<"S", "i", "m", "u", "l", "a", "t", "e", "d", " ", "D", "a", "t", "a", " ", "S", "o", "u", "r", "c", "e">> ]

possible_partner_countries ==
    <<S_USA, S_Germany, S_China, S_Japan, S_Brazil, S_Canada, S_Mexico, S_France, S_UK>>

NumPartners == Len(possible_partner_countries)

\* normalize_country_name(parsed_query.country) if parsed_query.country else None
target_reporting_country_normalized(parsed_query) ==
    IF Truthy(parsed_query.country)
    THEN normalize_country_name(parsed_query.country)
    ELSE None

\* the skip test of line 174 with the partner name left unnormalised
skip_partner_raw(target, partner_country_name) ==
    Truthy(target) /\ partner_country_name = target

\* line 174: the partner is the reporting country of the query
skip_partner(target, partner_country_name) ==
    Truthy(target) /\ normalize_country_name(partner_country_name) = target

\* hash() of a str: a function of the string and of the per-process seed,
\* here already reduced modulo 100000 (line 178 keeps only that residue)
DigitChars == <<"0", "1", "2", "3", "4", "5", "6", "7", "8", "9">>

\* the characters in code-point order
Alphabet ==
    <<" ", "#", "$", "+", ",", "-", ".", "/">> \o DigitChars \o <<":", "@">>
        \o UpperChars \o <<"_">> \o LowerChars

CodeOf == [c \in {Alphabet[i] : i \in 1..Len(Alphabet)} |->
              CHOOSE i \in 1..Len(Alphabet) : Alphabet[i] = c]

CharCode(c) == IF c \in DOMAIN CodeOf THEN CodeOf[c] ELSE 0

HashModulus == 100000

BaseVolume == 100000

RECURSIVE weighted_sum(_, _, _)
weighted_sum(s, lo, hi) ==
    IF lo > hi THEN 0
    ELSE IF lo = hi THEN CharCode(s[lo]) * lo
    ELSE LET mid == (lo + hi) \div 2
         IN  weighted_sum(s, lo, mid) + weighted_sum(s, mid + 1, hi)

str_hash(s, seed) == (seed * 7919 + weighted_sum(s, 1, Len(s)) * 31) % HashModulus

\* urlparse(url).netloc: the text between "//" and the next "/", "?" or "#"
SchemeChars ==
    {UpperChars[i] : i \in 1..26} \cup {LowerChars[i] : i \in 1..26}
        \cup {DigitChars[i] : i \in 1..10} \cup {"+", "-", "."}

AfterScheme(url) ==
    IF \E i \in 2..Len(url) :
          url[i] = ":" /\ \A j \in 1..(i - 1) : url[j] \in SchemeChars
    THEN LET i == CHOOSE k \in 2..Len(url) :
                     /\ url[k] = ":"
                     /\ \A j \in 1..(k - 1) : url[j] \in SchemeChars
                     /\ \A m \in 2..(k - 1) : url[m] # ":"
         IN  SubSeq(url, i + 1, Len(url))
    ELSE url

RECURSIVE UpToDelimiter(_)
UpToDelimiter(s) ==
    IF s = <<>> \/ Head(s) \in {"/", "?", "#"} THEN <<>>
    ELSE <<Head(s)>> \o UpToDelimiter(Tail(s))

netloc(url) ==
    LET rest == AfterScheme(url)
    IN  IF Len(rest) >= 2 /\ rest[1] = "/" /\ rest[2] = "/"
        THEN UpToDelimiter(SubSeq(rest, 3, Len(rest)))
        ELSE <<>>

\* round(v / d, 2) of a value held in thousandths, again in thousandths
RoundDiv(vm, d) == ((2 * vm + 10 * d) \div (20 * d)) * 10

\* random.choice([value, None]) for a field the draw leaves available or not
Maybe(draw, field, value) == IF field \in draw.present THEN value ELSE None

\* random.randint(lo, hi), as its decimal digits
RandInt(draw, lo, hi) == IF draw.high THEN hi ELSE lo

\* volume of lines 178-182, in thousandths
volume_of(partner_country_name, query, intent, seed) ==
    LET base == BaseVolume + str_hash(partner_country_name \o query, seed)
    IN  IF intent = S_import THEN base * 1200
        ELSE IF intent = S_export THEN base * 800
        ELSE base * 1000

\* lines 202 and 204 with origin and destination exchanged
direction_swapped(intent, target, partner_country_name) ==
    [country_of_destination |->
         IF intent = S_export THEN target ELSE partner_country_name,
     country_of_origin |->
         IF intent = S_export THEN partner_country_name ELSE target]

\* lines 202 and 204
direction(intent, target, partner_country_name) ==
    [country_of_destination |->
         IF intent = S_export THEN partner_country_name ELSE target,
     country_of_origin |->
         IF intent = S_export THEN target ELSE partner_country_name]

\* line 192: urlparse(url).netloc or "Simulated Data Source"
source_of(url) == IF netloc(url) # <<>> THEN netloc(url) ELSE ScrapeText.SimulatedSource

\* record_data of lines 186-223 for one partner; source, target and volume are
\* the values of lines 192, 170 and 178-182
record_data(source, parsed_query, partner_country_name, draw, target, volume) ==
    LET hscode_val == parsed_query.hsn_code
        product_desc_val == parsed_query.product_name
        intent == parsed_query.intent
        dir == direction(intent, target, partner_country_name)
    IN  [country |-> partner_country_name,
         volume_usd |-> Num(volume),
         volume_unit |-> Num(volume \div 100),
         unit |-> draw.unit,
         year |-> Num(2023),
         source |-> source,
         hscode |-> IF draw.hscode THEN hscode_val ELSE None,
         product_description |->
             IF draw.product_description THEN product_desc_val
             ELSE ScrapeText.Generic \o (IF Truthy(hscode_val) THEN hscode_val ELSE ScrapeText.Product),
         hs_product_description |->
             Maybe(draw, "hs_product_description",
                   ScrapeText.DescriptionFor
                       \o (IF Truthy(hscode_val) THEN hscode_val ELSE ScrapeText.unknown)),
         shipper_name |->
             Maybe(draw, "shipper_name",
                   ScrapeText.Shipper \o RandInt(draw, <<"1", "0", "0">>, <<"9", "9", "9">>)
                       \o ScrapeText.Inc),
         consignee_name |->
             Maybe(draw, "consignee_name",
                   ScrapeText.Consignee \o RandInt(draw, <<"1", "0", "0">>, <<"9", "9", "9">>)
                       \o ScrapeText.Co),
         std_quantity |-> Maybe(draw, "std_quantity", Num(RoundDiv(volume, 5000))),
         std_unit |-> draw.std_unit,
         country_of_destination |-> dir.country_of_destination,
         package_type |-> draw.package_type,
         country_of_origin |-> dir.country_of_origin,
         quantity |-> Maybe(draw, "quantity", Num(RoundDiv(volume, 1000))),
         bill_of_lading_no |->
             Maybe(draw, "bill_of_lading_no",
                   ScrapeText.BL \o RandInt(draw, <<"1", "0", "0", "0", "0">>,
                                   <<"9", "9", "9", "9", "9">>)),
         consignee_address |->
             Maybe(draw, "consignee_address", ScrapeText.MainSt \o partner_country_name),
         supplier_address |->
             Maybe(draw, "supplier_address",
                   ScrapeText.TradeRd \o (IF Truthy(target) THEN target ELSE ScrapeText.Global)),
         container_teu |-> draw.container_teu,
         port_of_origin |->
             Maybe(draw, "port_of_origin", ScrapeText.Port \o RandInt(draw, <<"A">>, <<"C">>)),
         port_of_destination |->
             Maybe(draw, "port_of_destination",
                   ScrapeText.Port \o RandInt(draw, <<"X">>, <<"Z">>)),
         port_of_delivery |->
             Maybe(draw, "port_of_delivery", ScrapeText.Port \o RandInt(draw, <<"P">>, <<"R">>)),
         gross_weight |-> Maybe(draw, "gross_weight", Num(RoundDiv(volume, 100))),
         measurement |->
             Maybe(draw, "measurement",
                   RandInt(draw, <<"1", "0">>, <<"5", "0">>) \o ScrapeText.CBM),
         freight_term |-> draw.freight_term,
         forwarder_name |->
             Maybe(draw, "forwarder_name",
                   ScrapeText.Forwarder \o RandInt(draw, ScrapeText.Logistics, ScrapeText.Global)),
         declarant_name |->
             Maybe(draw, "declarant_name",
                   ScrapeText.Declarant \o RandInt(draw, <<"1">>, <<"5">>)),
         notify_party_address |->
             Maybe(draw, "notify_party_address", ScrapeText.RecvBlvd \o partner_country_name),
         declarant_name_2 |->
             Maybe(draw, "declarant_name_2",
                   ScrapeText.Declarant \o RandInt(draw, <<"6">>, <<"1", "0">>)),
         marks_number |->
             Maybe(draw, "marks_number",
                   ScrapeText.MN \o RandInt(draw, <<"1", "0", "0", "0">>,
                                   <<"9", "9", "9", "9">>)),
         contact_number_booking |->
             Maybe(draw, "contact_number_booking",
                   ScrapeText.plus1 \o RandInt(draw,
                       <<"1", "0", "0", "0", "0", "0", "0", "0", "0", "0">>,
                       <<"9", "9", "9", "9", "9", "9", "9", "9", "9", "9">>)),
         contact_email_booking |->
             Maybe(draw, "contact_email_booking",
                   ScrapeText.booking \o RandInt(draw, <<"1">>, <<"1", "0">>) \o ScrapeText.example)]

\* the loop of lines 172-225 from partner i on; draws[i] is the random
\* outcome for partner i
RECURSIVE scrape_from(_, _, _, _, _, _, _)
scrape_from(i, source, query, parsed_query, draws, seed, target) ==
    IF i > NumPartners THEN <<>>
    ELSE IF skip_partner(target, possible_partner_countries[i])
    THEN scrape_from(i + 1, source, query, parsed_query, draws, seed, target)
    ELSE <<TradeDataRecord(
               record_data(source, parsed_query, possible_partner_countries[i], draws[i],
                           target,
                           volume_of(possible_partner_countries[i], query,
                                     parsed_query.intent, seed)))>>
             \o scrape_from(i + 1, source, query, parsed_query, draws, seed, target)

simulate_scrape_from_url(url, query, parsed_query, draws, seed) ==
    scrape_from(1, source_of(url), query, parsed_query, draws, seed,
                target_reporting_country_normalized(parsed_query))

(***************************************************************************)
(* The random outcomes of one record (lines 190-222), from a bounded set:  *)
(* which random.choice([value, None]) fields come out available, which     *)
(* alternative the multi-valued choices take, whether randint is low or    *)
(* high.                                                                   *)
(***************************************************************************)
MaybeFields ==
    {"hs_product_description", "shipper_name", "consignee_name", "std_quantity",
     "quantity", "bill_of_lading_no", "consignee_address", "supplier_address",
     "port_of_origin", "port_of_destination", "port_of_delivery", "gross_weight",
     "measurement", "forwarder_name", "declarant_name", "notify_party_address",
     "declarant_name_2", "marks_number", "contact_number_booking",
     "contact_email_booking"}

DrawFull ==
    [present |-> MaybeFields, unit |-> ScrapeText.kg, hscode |-> TRUE,
     product_description |-> TRUE, std_unit |-> ScrapeText.Pieces, package_type |-> ScrapeText.Cartons,
     container_teu |-> Num(1000), freight_term |-> ScrapeText.FOB, high |-> FALSE]

DrawBare ==
    [present |-> {}, unit |-> None, hscode |-> FALSE,
     product_description |-> FALSE, std_unit |-> None, package_type |-> None,
     container_teu |-> None, freight_term |-> None, high |-> TRUE]

DrawMixed ==
    [present |-> {"shipper_name", "quantity", "port_of_origin", "measurement"},
     unit |-> ScrapeText.tons, hscode |-> TRUE, product_description |-> FALSE,
     std_unit |-> None, package_type |-> ScrapeText.Boxes, container_teu |-> Num(500),
     freight_term |-> ScrapeText.CIF, high |-> TRUE]

Draws == {DrawFull, DrawBare, DrawMixed}

\* one draw per partner: the same for all, or alternating between two
BatchDraws ==
    {[i \in 1..NumPartners |-> d] : d \in Draws}
        \cup {[i \in 1..NumPartners |-> IF i % 2 = 1 THEN DrawMixed ELSE DrawBare]}

(***************************************************************************)
(* utils.perform_google_search: response is the outcome of the HTTP call   *)
(***************************************************************************)
perform_google_search(response) ==
    IF response.kind = "items" THEN response.items ELSE <<>>

(***************************************************************************)
(* ActAgent.fetch_data                                                     *)
(***************************************************************************)
S_pdf == <<"p", "d", "f">>
S_excel == <<"e", "x", "c", "e", "l">>

\* line 137
eligible(link) ==
    /\ Truthy(link)
    /\ ~Contains(Lower(link), S_pdf)
    /\ ~Contains(Lower(link), S_excel)

\* lines 144-148: a non-empty batch is appended and its link marked processed
add_scrape(link, simulated_scrape, acc) ==
    IF simulated_scrape # <<>>
    THEN [acc EXCEPT !.data = @ \o simulated_scrape, !.cache = @ \cup {link}]
    ELSE acc

\* lines 135-148 without the test of lines 138-140
process_result_unseen(link, query, parsed_query, draws, seed, acc) ==
    IF eligible(link)
    THEN add_scrape(link,
                    simulate_scrape_from_url(link, query, parsed_query, draws, seed),
                    acc)
    ELSE acc

\* lines 135-148 for one result; acc is raw_trade_data, scraped_data_cache and
\* the queries looked up so far
process_result(link, query, parsed_query, draws, seed, acc) ==
    IF eligible(link) /\ link \notin acc.cache
    THEN add_scrape(link,
                    simulate_scrape_from_url(link, query, parsed_query, draws, seed),
                    acc)
    ELSE acc

\* lines 134-148 for the results of one query
RECURSIVE fetch_results(_, _, _, _, _, _)
fetch_results(google_results, query, parsed_query, draws, seed, acc) ==
    IF google_results = <<>> THEN acc
    ELSE fetch_results(Tail(google_results), query, parsed_query, draws, seed,
                       process_result(Head(google_results).link, query, parsed_query,
                                      draws, seed, acc))

\* line 133: one call of perform_google_search for the query
looked_up(acc, query) == [acc EXCEPT !.lookups = Append(@, query)]

\* lines 132-149 with a loop that ends at the first lookup that fails
RECURSIVE fetch_queries_aborting(_, _, _, _, _, _, _)
fetch_queries_aborting(i, search_queries, parsed_query, responses, draws, seed, acc) ==
    IF i > Len(search_queries) THEN acc
    ELSE IF responses[i].kind = "error" THEN looked_up(acc, search_queries[i])
    ELSE fetch_queries_aborting(i + 1, search_queries, parsed_query, responses, draws,
                                seed,
                                fetch_results(perform_google_search(responses[i]),
                                              search_queries[i], parsed_query, draws,
                                              seed, looked_up(acc, search_queries[i])))

\* lines 132-149; responses[i] is the outcome of the lookup for query i
RECURSIVE fetch_queries(_, _, _, _, _, _, _)
fetch_queries(i, search_queries, parsed_query, responses, draws, seed, acc) ==
    IF i > Len(search_queries) THEN acc
    ELSE fetch_queries(i + 1, search_queries, parsed_query, responses, draws, seed,
                       fetch_results(perform_google_search(responses[i]),
                                     search_queries[i], parsed_query, draws, seed,
                                     looked_up(acc, search_queries[i])))

fetch_data(search_queries, parsed_query, responses, draws, seed, cache) ==
    fetch_queries(1, search_queries, parsed_query, responses, draws, seed,
                  [data |-> <<>>, cache |-> cache, lookups |-> <<>>])

(***************************************************************************)
(* pandas, as generate_recommendations and export_to_excel use it          *)
(***************************************************************************)
\* a < b for str: lexicographic by code point
RECURSIVE StrLess(_, _)
StrLess(a, b) ==
    IF b = <<>> THEN FALSE
    ELSE IF a = <<>> THEN TRUE
    ELSE IF Head(a) = Head(b) THEN StrLess(Tail(a), Tail(b))
    ELSE CharCode(Head(a)) < CharCode(Head(b))

\* the keys of model_dump(exclude_none=True), in field order
present_fields(record) ==
    SelectSeq([i \in 1..NumFields |-> i], LAMBDA i : record[FieldName(i)] # None)

Range(q) == {q[j] : j \in 1..Len(q)}

append_unseen(columns, seen, later) ==
    columns \o SelectSeq(later, LAMBDA i : i \notin seen)

\* the keys of later rows that are new, after the columns so far
merge_columns(columns, later) == append_unseen(columns, Range(columns), later)

\* the columns of rows lo..hi: each key at its first appearance, the keys of
\* one row in field order
RECURSIVE columns_of_rows(_, _, _)
columns_of_rows(trade_data, lo, hi) ==
    IF lo > hi THEN <<>>
    ELSE IF lo = hi THEN present_fields(trade_data[lo])
    ELSE merge_columns(columns_of_rows(trade_data, lo, (lo + hi) \div 2),
                       columns_of_rows(trade_data, ((lo + hi) \div 2) + 1, hi))

\* DataFrame(list of dicts).columns, as indices into TradeDataFields
dataframe_columns(trade_data) == columns_of_rows(trade_data, 1, Len(trade_data))

\* the index of a field name in TradeDataFields
FieldIndex(f) == CHOOSE i \in 1..NumFields : FieldName(i) = f

has_column(columns, f) == FieldIndex(f) \in Range(columns)

\* to_numeric(errors='coerce').fillna(0) of one cell, in thousandths
volume_cell(record) ==
    IF record["volume_usd"] = None THEN 0 ELSE NumVal(record["volume_usd"])

RECURSIVE sum_rows(_, _, _, _)
sum_rows(trade_data, country, lo, hi) ==
    IF lo > hi THEN 0
    ELSE IF lo = hi
         THEN (IF trade_data[lo]["country"] = country THEN volume_cell(trade_data[lo])
               ELSE 0)
    ELSE LET mid == (lo + hi) \div 2
         IN  sum_rows(trade_data, country, lo, mid)
                 + sum_rows(trade_data, country, mid + 1, hi)

\* the sum of volume_usd over the rows of one country
sum_volume(trade_data, country) == sum_rows(trade_data, country, 1, Len(trade_data))

\* the keys of groupby('country'): the non-null countries
group_keys(trade_data) ==
    {trade_data[i]["country"] : i \in 1..Len(trade_data)} \ {None}

\* groupby sorts its keys: the keys in ascending order
RECURSIVE sorted_keys(_)
sorted_keys(keys) ==
    IF keys = {} THEN <<>>
    ELSE LET least == CHOOSE k \in keys : \A o \in keys \ {k} : StrLess(k, o)
         IN  <<least>> \o sorted_keys(keys \ {least})

\* groupby('country')['volume_usd'].sum(): (country, sum) in key order
grouped_sums(trade_data) ==
    LET keys == sorted_keys(group_keys(trade_data))
    IN  [i \in 1..Len(keys) |-> <<keys[i], sum_volume(trade_data, keys[i])>>]

\* nsmallest in place of nlargest
RECURSIVE nsmallest(_, _)
nsmallest(series, n) ==
    IF n = 0 \/ series = <<>> THEN <<>>
    ELSE LET best == CHOOSE i \in 1..Len(series) :
                         /\ \A j \in 1..Len(series) : series[j][2] >= series[i][2]
                         /\ \A j \in 1..(i - 1) : series[j][2] > series[i][2]
             rest == [j \in 1..(Len(series) - 1) |->
                          IF j < best THEN series[j] ELSE series[j + 1]]
         IN  <<series[best]>> \o nsmallest(rest, n - 1)

\* Series.nlargest(n), keep='first': the largest first, ties in series order
RECURSIVE nlargest(_, _)
nlargest(series, n) ==
    IF n = 0 \/ series = <<>> THEN <<>>
    ELSE LET best == CHOOSE i \in 1..Len(series) :
                         /\ \A j \in 1..Len(series) : series[j][2] <= series[i][2]
                         /\ \A j \in 1..(i - 1) : series[j][2] < series[i][2]
             rest == [j \in 1..(Len(series) - 1) |->
                          IF j < best THEN series[j] ELSE series[j + 1]]
         IN  <<series[best]>> \o nlargest(rest, n - 1)

TopN == 3

\* line 243
top_countries(trade_data) == nlargest(grouped_sums(trade_data), TopN)

\* the non-null values of a column
column_values(trade_data, f) ==
    {trade_data[i][f] : i \in 1..Len(trade_data)} \ {None}

count_of(trade_data, f, v) ==
    Cardinality({i \in 1..Len(trade_data) : trade_data[i][f] = v})

\* Series.mode().iloc[0]: of the most frequent values, the least
mode_first(trade_data, f) ==
    LET vals == column_values(trade_data, f)
        modes == {v \in vals :
                     \A w \in vals : count_of(trade_data, f, w) <= count_of(trade_data, f, v)}
    IN  CHOOSE v \in modes : \A w \in modes \ {v} : StrLess(v, w)

\* decimal digits of n >= 0
RECURSIVE Digits(_)
Digits(n) ==
    IF n < 10 THEN <<DigitChars[n + 1]>>
    ELSE Digits(n \div 10) \o <<DigitChars[(n % 10) + 1]>>

RECURSIVE Grouped(_)
Grouped(n) ==
    IF n < 1000 THEN Digits(n)
    ELSE Grouped(n \div 1000) \o <<",">>
             \o <<DigitChars[((n \div 100) % 10) + 1], DigitChars[((n \div 10) % 10) + 1],
                  DigitChars[(n % 10) + 1]>>

\* f"{volume:,.2f}" of a value in thousandths
format_money(vm) ==
    LET a == IF vm < 0 THEN -vm ELSE vm
        cents == (a + 5) \div 10
    IN  (IF vm < 0 THEN <<"-">> ELSE <<>>)
            \o Grouped(cents \div 100)
            \o <<".", DigitChars[((cents \div 10) % 10) + 1], DigitChars[(cents % 10) + 1]>>

(***************************************************************************)
(* models.Recommendation and ActAgent.generate_recommendations             *)
(***************************************************************************)
S_NoData == <<"N", "o", " ", "D", "a", "t", "a">>
S_NoDataText == <<"N", "o", " ", "s", "u", "f", "f", "i", "c", "i", "e", "n", "t", " ", "t", "r", "a", "d", "e", " ", "d", "a", "t", "a", " ", "f", "o", "u", "n", "d", " ", "t", "o", " ", "g", "e", "n", "e", "r", "a", "t", "e", " ", "s", "p", "e", "c", "i", "f", "i", "c", " ", "r", "e", "c", "o", "m", "m", "e", "n", "d", "a", "t", "i", "o", "n", "s", ".">>
S_Top3 == <<"T", "o", "p", " ", "3", " ">>
S_ing == <<"i", "n", "g">>
S_Markets == <<" ", "M", "a", "r", "k", "e", "t", "s", " ", "b", "y", " ", "V", "o", "l", "u", "m", "e">>
S_FreightTitle == <<"C", "o", "m", "m", "o", "n", " ", "F", "r", "e", "i", "g", "h", "t", " ", "T", "e", "r", "m", "s">>
S_FreightText == <<"M", "o", "s", "t", " ", "f", "r", "e", "q", "u", "e", "n", "t", "l", "y", " ", "o", "b", "s", "e", "r", "v", "e", "d", " ", "f", "r", "e", "i", "g", "h", "t", " ", "t", "e", "r", "m", ":", " ">>
S_PackagingTitle == <<"T", "y", "p", "i", "c", "a", "l", " ", "P", "a", "c", "k", "a", "g", "i", "n", "g">>
S_PackagingText == <<"C", "o", "m", "m", "o", "n", " ", "p", "a", "c", "k", "a", "g", "i", "n", "g", " ", "t", "y", "p", "e", ":", " ">>
S_GeneralAdvice == <<"G", "e", "n", "e", "r", "a", "l", " ", "A", "d", "v", "i", "c", "e">>
S_GeneralText == <<"F", "u", "r", "t", "h", "e", "r", " ", "d", "e", "t", "a", "i", "l", "e", "d", " ", "a", "n", "a", "l", "y", "s", "i", "s", " ", "i", "s", " ", "r", "e", "q", "u", "i", "r", "e", "d", " ", "f", "o", "r", " ", "s", "p", "e", "c", "i", "f", "i", "c", " ", "r", "e", "c", "o", "m", "m", "e", "n", "d", "a", "t", "i", "o", "n", "s", ".">>

Recommendation(title, description) == [title |-> title, description |-> description]

\* lines 248-250: "country: $volume" joined by ", "
RECURSIVE description_parts(_)
description_parts(top) ==
    IF top = <<>> THEN <<>>
    ELSE Head(top)[1] \o <<":", " ", "$">> \o format_money(Head(top)[2])
             \o (IF Len(top) > 1 THEN <<",", " ">> ELSE <<>>)
             \o description_parts(Tail(top))

\* lines 245-251: the recommendation of a non-empty top_countries, or the
\* TypeError of None + str
top_recommendation(top, parsed_query) ==
    IF top = <<>> THEN Returned(<<>>)
    ELSE IF parsed_query.intent = None THEN Raised(<<"T", "y", "p", "e">>)
    ELSE Returned(<<Recommendation(
             S_Top3 \o parsed_query.intent
                 \o (IF Truthy(parsed_query.intent) THEN S_ing ELSE <<>>)
                 \o S_Markets,
             description_parts(top))>>)

\* lines 240-251: the recommendations added, or the exception raised
\* (groupby('country') raises KeyError when no row has a country)
top_markets(trade_data, parsed_query, columns) ==
    IF columns # <<>> /\ has_column(columns, "volume_usd")
    THEN IF ~has_column(columns, "country") THEN Raised(<<"K", "e", "y">>)
         ELSE top_recommendation(top_countries(trade_data), parsed_query)
    ELSE Returned(<<>>)

\* lines 254-268
modal_recommendations(trade_data, columns) ==
    (IF has_column(columns, "freight_term")
     THEN <<Recommendation(S_FreightTitle,
                           S_FreightText \o mode_first(trade_data, "freight_term")
                               \o <<".">>)>>
     ELSE <<>>)
    \o (IF has_column(columns, "package_type")
        THEN <<Recommendation(S_PackagingTitle,
                              S_PackagingText \o mode_first(trade_data, "package_type")
                                  \o <<".">>)>>
        ELSE <<>>)

\* line 273: the columns the prompt selects; a missing one raises KeyError
PromptColumns ==
    {"country", "volume_usd", "product_description", "freight_term", "package_type",
     "shipper_name", "consignee_name"}

\* lines 303-305 and 307-309: the entries appended until one raises
RECURSIVE llm_entries(_)
llm_entries(items) ==
    IF items = <<>> THEN <<>>
    ELSE LET e == Head(items)
         IN  IF e.t = "num" THEN <<>>
             ELSE IF e.t = "str" THEN llm_entries(Tail(items))
             ELSE IF e.title.t = "missing" \/ e.description.t = "missing"
                  THEN llm_entries(Tail(items))
             ELSE IF e.title.t # "str" \/ e.description.t # "str" THEN <<>>
             ELSE <<Recommendation(e.title.v, e.description.v)>>
                      \o llm_entries(Tail(items))

\* lines 271-316: what the model step appends; reply is the outcome of the call
llm_recommendations(columns, reply) ==
    IF \E f \in PromptColumns : ~has_column(columns, f) THEN <<>>
    ELSE IF reply.kind # "json" THEN <<>>
    ELSE IF reply.top \in {"list", "recommendations"} THEN llm_entries(reply.items)
    ELSE <<>>

\* lines 319-325 without the fallback entry
final_list_nofallback(recommendations_list) == Returned(recommendations_list)

\* lines 319-325
final_list(recommendations_list) ==
    IF recommendations_list = <<>>
    THEN Returned(<<Recommendation(S_GeneralAdvice, S_GeneralText)>>)
    ELSE Returned(recommendations_list)

\* lines 253-325 with a handler that starts the list afresh when the model
\* step fails
after_top_markets_discarding(trade_data, columns, reply, top) ==
    IF top.kind = "raise" THEN top
    ELSE IF (\E f \in PromptColumns : ~has_column(columns, f)) \/ reply.kind # "json"
                \/ reply.top \notin {"list", "recommendations"}
         THEN final_list(<<>>)
         ELSE final_list(top.value \o modal_recommendations(trade_data, columns)
                             \o llm_recommendations(columns, reply))

\* lines 253-325, once the top-markets step has returned or raised
after_top_markets(trade_data, columns, reply, top) ==
    IF top.kind = "raise" THEN top
    ELSE final_list(top.value \o modal_recommendations(trade_data, columns)
                        \o llm_recommendations(columns, reply))

\* lines 237-325 on the DataFrame of line 235
recommendations_of(trade_data, parsed_query, reply, columns) ==
    after_top_markets(trade_data, columns, reply,
                      top_markets(trade_data, parsed_query, columns))

generate_recommendations(trade_data, parsed_query, reply) ==
    IF trade_data = <<>>
    THEN Returned(<<Recommendation(S_NoData, S_NoDataText)>>)
    ELSE recommendations_of(trade_data, parsed_query, reply,
                            dataframe_columns(trade_data))

(***************************************************************************)
(* ActAgent.export_to_excel: the columns and the number of data rows of    *)
(* the sheet written                                                       *)
(***************************************************************************)
\* the labels of a sequence of field indices (by_alias=True)
aliases(columns) == [j \in 1..Len(columns) |-> FieldAlias(columns[j])]

AllHeaders == [i \in 1..NumFields |-> FieldAlias(i)]

Sheet(columns, rows) == [columns |-> columns, rows |-> rows]

\* line 347 without exclude_none: every field becomes a column
sheet_of_all_fields(trade_data, columns) ==
    Returned(Sheet(AllHeaders, Len(trade_data)))

\* lines 347-357 on the DataFrame of line 347
sheet_of(trade_data, columns) ==
    IF columns = <<>> THEN Returned(Sheet(AllHeaders, 0))
    ELSE Returned(Sheet(aliases(columns), Len(trade_data)))

\* export_to_excel writing the header row for an empty list too
export_to_excel_headers(trade_data) ==
    IF trade_data = <<>> THEN Returned(Sheet(AllHeaders, 0))
    ELSE sheet_of(trade_data, dataframe_columns(trade_data))

export_to_excel(trade_data) ==
    IF trade_data = <<>> THEN Returned(Sheet(<<>>, 0))
    ELSE sheet_of(trade_data, dataframe_columns(trade_data))

(***************************************************************************)
(* main.analyze_trade                                                      *)
(***************************************************************************)
S_general == <<"g", "e", "n", "e", "r", "a", "l">>
S_trade == <<"t", "r", "a", "d", "e">>
S_trade_data_ == <<"t", "r", "a", "d", "e", "_", "d", "a", "t", "a", "_">>
S_xlsx == <<".", "x", "l", "s", "x">>

\* str.replace(old, new) for one-character old and new
ReplaceChar(s, old, new) ==
    IF s = <<>> THEN <<>> ELSE [i \in 1..Len(s) |-> IF s[i] = old THEN new ELSE s[i]]

\* lines 41-44
excel_filename(parsed_query) ==
    LET identifier == IF Truthy(parsed_query.hsn_code) THEN parsed_query.hsn_code
                      ELSE IF Truthy(parsed_query.product_name)
                           THEN parsed_query.product_name
                      ELSE S_general
        intent_str == IF Truthy(parsed_query.intent) THEN parsed_query.intent ELSE S_trade
    IN  S_trade_data_ \o ReplaceChar(ReplaceChar(identifier, " ", "_"), "/", "-")
            \o <<"_">> \o intent_str \o S_xlsx

NoSheet == Sheet(<<>>, 0)

\* what a request leaves behind: the HTTP status, the stages that ran, their
\* results, and the cache
Outcome(status, stages, parsed_query, search_queries, trade_data, recommendations, sheet, filename, cache) ==
    [status |-> status, stages |-> stages, parsed_query |-> parsed_query,
     search_queries |-> search_queries, trade_data |-> trade_data,
     recommendations |-> recommendations, sheet |-> sheet, filename |-> filename,
     cache |-> cache]

\* line 30 testing only for None
intent_missing_none_only(parsed_query) == parsed_query.intent = None

\* line 30: not parsed_query.intent
intent_missing(parsed_query) == ~Truthy(parsed_query.intent)

\* lines 45-61, once generate_recommendations has returned or raised
after_recommend(parsed_query, search_queries, fetched, recs) ==
    IF recs.kind = "raise"
    THEN Outcome(500, <<"parse", "decide", "fetch", "recommend">>, parsed_query,
                 search_queries, fetched.data, <<>>, NoSheet, <<>>, fetched.cache)
    ELSE Outcome(200, <<"parse", "decide", "fetch", "recommend", "export">>,
                 parsed_query, search_queries, fetched.data, recs.value,
                 export_to_excel(fetched.data).value, excel_filename(parsed_query),
                 fetched.cache)

\* lines 38-61 on the result of fetch_data
after_fetch(input, parsed_query, search_queries, fetched) ==
    after_recommend(parsed_query, search_queries, fetched,
                    generate_recommendations(fetched.data, parsed_query, input.rec_reply))

\* lines 37-61 on the result of decide_strategy
after_decide(input, seed, cache, parsed_query, search_queries) ==
    after_fetch(input, parsed_query, search_queries,
                fetch_data(search_queries, parsed_query, input.responses, input.draws,
                           seed, cache))

\* lines 30-68 on the result of parse_query
after_parse(input, seed, cache, parsed) ==
    IF parsed.kind = "raise"
    THEN Outcome(500, <<"parse">>, ParsedQueryDefault, <<>>, <<>>, <<>>, NoSheet, <<>>,
                 cache)
    ELSE IF intent_missing(parsed.value)
    THEN Outcome(400, <<"parse">>, parsed.value, <<>>, <<>>, <<>>, NoSheet, <<>>, cache)
    ELSE after_decide(input, seed, cache, parsed.value, decide_strategy(parsed.value))

\* analyze_trade, lines 27-68. input holds the outcomes of the external calls:
\* the extractor's model reply, the lookup responses, the random draws and the
\* recommender's model reply.
analyze_trade(input, seed, cache) ==
    after_parse(input, seed, cache, parse_query(input.reply))

(***************************************************************************)
(* The inputs the specifications draw from.                                *)
(***************************************************************************)
S_8419 == <<"8", "4", "1", "9">>
S_pumps == <<"g", "a", "s", " ", "p", "u", "m", "p", "s">>
S_both == <<"b", "o", "t", "h">>
S_Import == <<"I", "m", "p", "o", "r", "t">>
S_INDIA == <<"I", "N", "D", "I", "A">>
S_GERMANY == <<"G", "E", "R", "M", "A", "N", "Y">>
S_Usa == <<"U", "s", "a">>
S_EU == <<"E", "U">>
S_Peru == <<"P", "e", "r", "u">>
S_high_volume == <<"h", "i", "g", "h", " ", "v", "o", "l", "u", "m", "e">>

\* spellings of a query country: canonical names, aliases, other letter cases,
\* names the alias table does not hold
CountrySpellings ==
    {S_India, Lower(S_India), S_INDIA, S_USA, Lower(S_USA), S_Usa, S_UnitedStates,
     S_UK, Lower(S_UK), S_UnitedKingdom, Lower(S_UnitedKingdom), S_Germany, S_GERMANY,
     S_China, Lower(S_Japan), S_Brazil, Lower(S_Brazil), S_France, S_Canada,
     Lower(S_Mexico), S_EU, S_Peru}

Countries == CountrySpellings \cup {None, <<>>}

Intents == {S_import, S_export, None, <<>>, S_both, S_Import}

HsnCodes == {None, <<>>, S_8419}

ProductNames == {None, S_pumps}

ParsedQueries ==
    {[hsn_code |-> h, product_name |-> p, country |-> c, intent |-> i, keywords |-> <<>>] :
        h \in HsnCodes, p \in ProductNames, c \in Countries, i \in Intents}

\* links a lookup returns
L_a == <<"h", "t", "t", "p", "s", ":", "/", "/", "a", ".", "o", "r", "g", "/", "x">>
L_b == <<"h", "t", "t", "p", ":", "/", "/", "b", ".", "i", "o", "/", "y", "?", "q">>
L_plain == <<"c", ".", "n", "e", "t", "/", "z">>
L_pdf == <<"h", "t", "t", "p", "s", ":", "/", "/", "a", ".", "o", "r", "g", "/", "r", ".", "P", "D", "F">>
L_excel == <<"h", "t", "t", "p", ":", "/", "/", "b", ".", "i", "o", "/", "E", "x", "c", "e", "l", "/", "1">>

Result(link) == [link |-> link, title |-> <<"t">>]

Items(links) == [kind |-> "items", items |-> [i \in 1..Len(links) |-> Result(links[i])]]

LookupError == [kind |-> "error", items |-> <<>>]

LookupNoItems == [kind |-> "noitems", items |-> <<>>]

\* decide_strategy plans at most this many queries
MaxQueries == 5

\* the lookup responses of one request, one per planned query
ResponseSeqs ==
    { [i \in 1..MaxQueries |-> LookupError],
      [i \in 1..MaxQueries |-> Items(<<L_a>>)],
      [i \in 1..MaxQueries |-> IF i = 1 THEN Items(<<L_a, L_pdf, L_b>>)
                               ELSE IF i = 2 THEN LookupNoItems
                               ELSE Items(<<L_b, None, L_excel>>)],
      [i \in 1..MaxQueries |-> IF i = 1 THEN LookupError ELSE Items(<<L_plain, L_plain>>)] }

\* replies of the extractor's model
JObject(h, p, c, i, k) ==
    [kind |-> "json", top |-> "object",
     obj |-> [hsn_code |-> h, product_name |-> p, country |-> c, intent |-> i,
              keywords |-> k]]

NoObject == [hsn_code |-> JMissing, product_name |-> JMissing, country |-> JMissing,
             intent |-> JMissing, keywords |-> JMissing]

ReplyError == [kind |-> "error", top |-> "none", obj |-> NoObject]

ReplyText == [kind |-> "text", top |-> "none", obj |-> NoObject]

ReplyList == [kind |-> "json", top |-> "list", obj |-> NoObject]

FailedReplies == {ReplyError, ReplyText, ReplyList}

\* JSON objects that do not fit the ParsedQuery schema
MismatchedReplies ==
    { JObject(JStr(S_8419), JNull, JNull, JNumber, JList(<<>>)),
      JObject(JNumber, JNull, JNull, JStr(S_import), JList(<<>>)),
      JObject(JStr(S_8419), JNull, JStr(S_India), JStr(S_export), JNull),
      JObject(JNull, JNull, JNull, JStr(S_import), JList(<<JNumber>>)) }

JIntents == {JStr(S_import), JStr(S_export), JNull, JMissing, JStr(<<>>), JStr(S_both)}

FittingReplies ==
    {JObject(hc[1], JNull, hc[2], i, JList(<<JStr(S_high_volume)>>)) :
        hc \in { <<JNull, JNull>>, <<JStr(S_8419), JStr(Lower(S_India))>>,
                 <<JStr(S_8419), JStr(S_USA)>> },
        i \in JIntents}

ParseReplies == FailedReplies \cup MismatchedReplies \cup FittingReplies

\* replies of the recommender's model
REntry(title, description) == [t |-> "dict", title |-> title, description |-> description]

RecReply(kind, top, items) == [kind |-> kind, top |-> top, items |-> items]

S_t1 == <<"T", "1">>
S_t2 == <<"T", "2">>
S_d1 == <<"D", "1">>
S_d2 == <<"D", "2">>

RecReplyError == RecReply("error", "none", <<>>)

RecReplies ==
    { RecReplyError,
      RecReply("text", "none", <<>>),
      RecReply("json", "list", <<REntry(JStr(S_t1), JStr(S_d1)), REntry(JStr(S_t2), JStr(S_d2))>>),
      RecReply("json", "recommendations",
               <<REntry(JStr(S_t1), JMissing), REntry(JStr(S_t2), JStr(S_d2)),
                 REntry(JNull, JStr(S_d1)), REntry(JStr(S_t1), JStr(S_d1))>>),
      RecReply("json", "list", <<REntry(JStr(S_t1), JStr(S_d1)), REntry(JStr(S_t1), JStr(S_d1))>>),
      RecReply("json", "other", <<>>) }

\* the inputs of one request: a reply that ends the request at line 31 with the
\* other outcomes never consulted, or a reply with a usable intent and the
\* outcomes of the calls that follow
PipelineDraws == [i \in 1..NumPartners |-> IF i % 2 = 1 THEN DrawFull ELSE DrawBare]

RequestInput(r, l, d, m) == [reply |-> r, responses |-> l, draws |-> d, rec_reply |-> m]

RejectedReplies ==
    FailedReplies \cup MismatchedReplies
        \cup {JObject(JStr(S_8419), JNull, JStr(S_USA), i, JList(<<>>)) :
                 i \in {JNull, JMissing, JStr(<<>>)}}

AcceptedReplies ==
    {JObject(JStr(S_8419), JNull, JStr(Lower(S_India)), JStr(i), JList(<<>>)) :
        i \in {S_import, S_export, S_both}}
        \cup {JObject(JNull, JStr(S_pumps), JNull, JStr(S_import), JList(<<>>))}

RequestInputs ==
    {RequestInput(r, [i \in 1..MaxQueries |-> LookupError], PipelineDraws, RecReplyError) :
        r \in RejectedReplies}
    \cup {RequestInput(r, l, PipelineDraws, m) :
             r \in AcceptedReplies, l \in ResponseSeqs,
             m \in {RecReplyError,
                    RecReply("json", "list", <<REntry(JStr(S_t1), JStr(S_d1))>>)}}

NoArgs == <<>>

NoRet == <<>>

(***************************************************************************)
(* Spec: the server. Requests are served one at a time (the handler has no *)
(* await), each by one run of analyze_trade on the shared act_agent.       *)
(***************************************************************************)
Init ==
    /\ pc = "idle"
    /\ op = "analyze_trade"
    /\ args = NoArgs
    /\ ret = NoRet
    /\ scraped_data_cache = {}
    /\ requests = 0
    /\ hash_seed = 0

AnalyzeTrade ==
    /\ pc = "idle"
    /\ requests < MaxRequests
    /\ \E input \in RequestInputs :
          LET out == analyze_trade(input, hash_seed, scraped_data_cache)
          IN  /\ args' = input
              /\ ret' = out
              /\ scraped_data_cache' = out.cache
    /\ requests' = requests + 1
    /\ UNCHANGED <<pc, op, hash_seed>>

Next == AnalyzeTrade

Spec == Init /\ [][Next]_vars

(***************************************************************************)
(* SpecDecide: decide_strategy applied to one parsed query.                *)
(***************************************************************************)
InitDecide ==
    /\ pc = "call"
    /\ op = "decide_strategy"
    /\ args \in {[parsed_query |-> q] : q \in ParsedQueries}
    /\ ret = NoRet
    /\ scraped_data_cache = {}
    /\ requests = 0
    /\ hash_seed = 0

DecideStrategy ==
    /\ pc = "call"
    /\ op = "decide_strategy"
    /\ ret' = Returned(decide_strategy(args.parsed_query))
    /\ pc' = "done"
    /\ UNCHANGED <<op, args, scraped_data_cache, requests, hash_seed>>

NextDecide == DecideStrategy

SpecDecide == InitDecide /\ [][NextDecide]_vars

(***************************************************************************)
(* SpecScrape: _simulate_scrape_from_url applied to one link, with the     *)
(* query the planner puts first for the parsed query.                      *)
(***************************************************************************)
ScrapeQueries ==
    {[hsn_code |-> h, product_name |-> p, country |-> c, intent |-> i, keywords |-> <<>>] :
        h \in {None, S_8419}, p \in ProductNames, c \in Countries,
        i \in {S_import, S_export, None, S_both}}

InitScrape ==
    /\ pc = "call"
    /\ op = "simulate_scrape_from_url"
    /\ args \in {[url |-> u, query |-> decide_strategy(q)[1], parsed_query |-> q] :
                    u \in {L_a, L_plain}, q \in ScrapeQueries}
    /\ ret = NoRet
    /\ scraped_data_cache = {}
    /\ requests = 0
    /\ hash_seed \in 0..MaxSeed

SimulateScrape ==
    /\ pc = "call"
    /\ op = "simulate_scrape_from_url"
    /\ \E draws \in BatchDraws :
          ret' = Returned(simulate_scrape_from_url(args.url, args.query,
                                                   args.parsed_query, draws, hash_seed))
    /\ pc' = "done"
    /\ UNCHANGED <<op, args, scraped_data_cache, requests, hash_seed>>

NextScrape == SimulateScrape

SpecScrape == InitScrape /\ [][NextScrape]_vars

(***************************************************************************)
(* SpecRecommend: generate_recommendations applied to one list of records. *)
(***************************************************************************)
QueryWithIntent(i) ==
    [hsn_code |-> S_8419, product_name |-> S_pumps, country |-> S_India, intent |-> i,
     keywords |-> <<>>]

\* records as the simulator builds them, and records holding few fields
SampleQuery == QueryWithIntent(S_export)

Synthesized(partner_country_name, draw) ==
    TradeDataRecord(record_data(source_of(L_a), SampleQuery, partner_country_name, draw,
                                S_India,
                                volume_of(partner_country_name, S_open_source, S_export,
                                          0)))

RecordWith(data) == TradeDataRecord(data)

GeneralRecords ==
    { Synthesized(S_USA, DrawFull),
      Synthesized(S_China, DrawMixed),
      Synthesized(S_USA, DrawBare),
      EmptyRecord,
      RecordWith([volume_usd |-> Num(5000)]),
      RecordWith([freight_term |-> ScrapeText.EXW, package_type |-> ScrapeText.Pallets]) }

SeqsUpTo(S, n) == UNION {[1..k -> S] : k \in 0..n}

GeneralCalls ==
    {[trade_data |-> d, parsed_query |-> QueryWithIntent(i), reply |-> m] :
        d \in SeqsUpTo(GeneralRecords, MaxRecords),
        i \in {S_import, S_export, None, <<>>},
        m \in RecReplies}

\* lists that vary the countries and the volumes: the country of each row is
\* fixed by a pattern, its volume is absent or 0..MaxVolume dollars
CountryPatterns ==
    { <<S_USA, S_Brazil, S_China, S_UK, S_USA>>,
      <<S_UK, S_China, None, S_China>>,
      <<None, None>> }

VolumeCells == {None} \cup {Num(v * 1000) : v \in 0..MaxVolume}

VolumeRecord(country, volume) == RecordWith([country |-> country, volume_usd |-> volume])

VolumeLists ==
    UNION {{[r \in 1..Len(p) |-> VolumeRecord(p[r], v[r])] :
                v \in [1..Len(p) -> VolumeCells]} : p \in CountryPatterns}

VolumeCalls ==
    {[trade_data |-> d, parsed_query |-> QueryWithIntent(S_import),
      reply |-> RecReplyError] : d \in VolumeLists}

InitRecommend ==
    /\ pc = "call"
    /\ op = "generate_recommendations"
    /\ args \in GeneralCalls \cup VolumeCalls
    /\ ret = NoRet
    /\ scraped_data_cache = {}
    /\ requests = 0
    /\ hash_seed = 0

GenerateRecommendations ==
    /\ pc = "call"
    /\ op = "generate_recommendations"
    /\ ret' = generate_recommendations(args.trade_data, args.parsed_query, args.reply)
    /\ pc' = "done"
    /\ UNCHANGED <<op, args, scraped_data_cache, requests, hash_seed>>

NextRecommend == GenerateRecommendations

SpecRecommend == InitRecommend /\ [][NextRecommend]_vars

(***************************************************************************)
(* SpecExport: export_to_excel applied to one list of records.             *)
(***************************************************************************)
ExportVaryFields == {"country", "volume_usd", "hscode", "freight_term"}

ExportValue(f) == IF f = "volume_usd" THEN Num(1000) ELSE <<"x">>

ExportRecords ==
    {[f \in FieldNames |-> IF f \in present THEN ExportValue(f) ELSE None] :
        present \in SUBSET ExportVaryFields}
    \cup {Synthesized(S_USA, DrawFull)}

InitExport ==
    /\ pc = "call"
    /\ op = "export_to_excel"
    /\ args \in {[trade_data |-> d] : d \in SeqsUpTo(ExportRecords, MaxRecords)}
    /\ ret = NoRet
    /\ scraped_data_cache = {}
    /\ requests = 0
    /\ hash_seed = 0

ExportToExcel ==
    /\ pc = "call"
    /\ op = "export_to_excel"
    /\ ret' = export_to_excel(args.trade_data)
    /\ pc' = "done"
    /\ UNCHANGED <<op, args, scraped_data_cache, requests, hash_seed>>

NextExport == ExportToExcel

SpecExport == InitExport /\ [][NextExport]_vars

(***************************************************************************)
(* Properties of the request pipeline (Spec)                               *)
(***************************************************************************)
Answered == op = "analyze_trade" /\ requests > 0

\* C1: the seen-link cache is scoped to one request: the records a request
\* returns are the records fetch_data yields for its planned queries and its
\* lookups starting from an empty cache, whatever earlier requests processed.
C1_CacheScopedPerRequest ==
    (Answered /\ ret.status = 200) =>
        ret.trade_data = fetch_data(ret.search_queries, ret.parsed_query, args.responses,
                                    args.draws, hash_seed, {}).data

\* C9: the intent a request carries is import, export or absent (an empty
\* intent counts as absent, as the truth test of line 30 takes it), and a
\* request that gets past the parse stage carries import or export.
C9_IntentIsLiteral ==
    Answered =>
        /\ (Truthy(ret.parsed_query.intent) =>
               ret.parsed_query.intent \in {S_import, S_export})
        /\ (Len(ret.stages) > 1 => ret.parsed_query.intent \in {S_import, S_export})

\* C10: a request whose language-model reply fails, is not JSON or does not
\* fit the schema parses to the all-absent ParsedQuery; a request whose intent
\* is absent is answered 400 (never 500) after the parse stage alone, with no
\* planning, fetch, recommendation or export, and leaves the cache as it was.
C10_ParseFailureRejected ==
    [][requests' > requests =>
          /\ (args'.reply \in FailedReplies \cup MismatchedReplies =>
                 ret'.parsed_query = ParsedQueryDefault)
          /\ (ret'.parsed_query.intent = None =>
                 /\ ret'.status = 400
                 /\ ret'.stages = <<"parse">>
                 /\ ret'.search_queries = <<>>
                 /\ ret'.trade_data = <<>>
                 /\ ret'.recommendations = <<>>
                 /\ ret'.sheet = NoSheet
                 /\ scraped_data_cache' = scraped_data_cache)]_vars

\* a second request whose reply is not JSON, rejected while the cache holds
\* the links of the first
C10_Witness ==
    /\ Answered
    /\ requests = 2
    /\ scraped_data_cache # {}
    /\ args.reply = ReplyText
    /\ ret.status = 400
    /\ ret.parsed_query = ParsedQueryDefault

(***************************************************************************)
(* Properties of decide_strategy (SpecDecide)                              *)
(***************************************************************************)
Decided == op = "decide_strategy" /\ pc = "done"

IndiaExport(parsed_query) ==
    /\ Truthy(parsed_query.country)
    /\ normalize_country_name(parsed_query.country) = S_India
    /\ parsed_query.intent = S_export

NamesDGFT(search_queries) ==
    \E i \in 2..Len(search_queries) : Contains(search_queries[i], S_DGFT)

\* C8 as stated: a query whose country normalizes to India and whose intent
\* is export gets a source-specific search query naming DGFT, whatever its
\* other fields.
C8_IndiaExportAlwaysDGFT ==
    (Decided /\ IndiaExport(args.parsed_query)) => NamesDGFT(ret.value)

\* C8: a query whose country normalizes to India, whose intent is export and
\* whose HS code is present gets a source-specific search query naming DGFT
\* and the HS code; without an HS code no source-specific query is planned.
C8_IndiaExportDGFT ==
    (Decided /\ IndiaExport(args.parsed_query)) =>
        IF Truthy(args.parsed_query.hsn_code)
        THEN \E i \in 2..Len(ret.value) :
                 /\ Contains(ret.value[i], S_DGFT)
                 /\ Contains(ret.value[i], args.parsed_query.hsn_code)
        ELSE Len(ret.value) = 1

\* the country spelled in capitals, with an HS code
C8_Witness ==
    /\ Decided
    /\ args.parsed_query.country = S_INDIA
    /\ args.parsed_query.intent = S_export
    /\ args.parsed_query.hsn_code = S_8419
    /\ NamesDGFT(ret.value)

(***************************************************************************)
(* Properties of _simulate_scrape_from_url (SpecScrape)                    *)
(***************************************************************************)
Scraped == op = "simulate_scrape_from_url" /\ pc = "done"

\* the normalized query country, absent when the query has none
ReportingCountry(parsed_query) ==
    IF Truthy(parsed_query.country) THEN normalize_country_name(parsed_query.country)
    ELSE None

\* C2: when the query names a country, no synthesized record has as partner
\* country that country, compared after normalizing both names.
C2_ReportingNeverPartner ==
    (Scraped /\ Truthy(args.parsed_query.country)) =>
        \A i \in 1..Len(ret.value) :
            /\ ret.value[i].country # ReportingCountry(args.parsed_query)
            /\ normalize_country_name(ret.value[i].country)
                   # ReportingCountry(args.parsed_query)

\* the query names "usa": the partner USA is left out, the other eight stay
C2_Witness ==
    /\ Scraped
    /\ args.parsed_query.country = Lower(S_USA)
    /\ Len(ret.value) = NumPartners - 1
    /\ \A i \in 1..Len(ret.value) : ret.value[i].country # S_USA

\* C3: with intent export every record has the normalized query country as
\* origin and the partner as destination; with intent import the partner as
\* origin and the normalized query country as destination.
C3_OriginDestination ==
    Scraped =>
        \A i \in 1..Len(ret.value) :
            /\ args.parsed_query.intent = S_export =>
                  /\ ret.value[i].country_of_origin = ReportingCountry(args.parsed_query)
                  /\ ret.value[i].country_of_destination = ret.value[i].country
            /\ args.parsed_query.intent = S_import =>
                  /\ ret.value[i].country_of_origin = ret.value[i].country
                  /\ ret.value[i].country_of_destination
                         = ReportingCountry(args.parsed_query)

\* an export query for "uk": records from the United Kingdom to a partner
C3_Witness ==
    /\ Scraped
    /\ args.parsed_query.intent = S_export
    /\ args.parsed_query.country = Lower(S_UK)
    /\ Len(ret.value) > 0
    /\ ret.value[1].country_of_origin = S_UnitedKingdom
    /\ ret.value[1].country_of_destination = ret.value[1].country
    /\ ret.value[1].country # S_UnitedKingdom

(***************************************************************************)
(* Properties of generate_recommendations (SpecRecommend)                  *)
(***************************************************************************)
Recommended == op = "generate_recommendations" /\ pc = "done"

\* C4: generate_recommendations always returns a list with at least one
\* recommendation; for an empty input list it is the single "No Data" one.
C4_NeverEmpty ==
    Recommended =>
        /\ ret.kind = "return"
        /\ Len(ret.value) >= 1
        /\ (args.trade_data = <<>> =>
               ret.value = <<Recommendation(S_NoData, S_NoDataText)>>)

StartsWith(s, prefix) == Len(s) >= Len(prefix) /\ SubSeq(s, 1, Len(prefix)) = prefix

InputCountries(trade_data) ==
    {trade_data[i].country : i \in 1..Len(trade_data)} \ {None}

\* the summed volume of a country over the first n rows, in thousandths
RECURSIVE TotalVolume(_, _, _)
TotalVolume(trade_data, country, n) ==
    IF n = 0 THEN 0
    ELSE TotalVolume(trade_data, country, n - 1)
             + (IF trade_data[n].country = country /\ trade_data[n].volume_usd # None
                THEN NumVal(trade_data[n].volume_usd) ELSE 0)

Total(trade_data, country) == TotalVolume(trade_data, country, Len(trade_data))

Listings(countries) ==
    {l \in SeqsUpTo(countries, TopN) :
        \A i, j \in 1..Len(l) : i # j => l[i] # l[j]}

\* l lists countries by non-increasing total, and no country left out of l
\* has a larger total than a listed one
IsTopListing(trade_data, l) ==
    /\ \A i \in 1..(Len(l) - 1) : Total(trade_data, l[i]) >= Total(trade_data, l[i + 1])
    /\ \A c \in InputCountries(trade_data) \ Range(l) :
           \A i \in 1..Len(l) : Total(trade_data, c) <= Total(trade_data, l[i])

ListingText(trade_data, l) ==
    description_parts([i \in 1..Len(l) |-> <<l[i], Total(trade_data, l[i])>>])

TopMarketEntries(recommendations) ==
    {i \in 1..Len(recommendations) : StartsWith(recommendations[i].title, S_Top3)}

\* C5: the top-markets recommendation lists at most 3 distinct countries of
\* the input, each with its summed volume, in non-increasing order of volume,
\* and no unlisted country has a larger summed volume than a listed one; it
\* is present whenever some row has a volume and some row a country.
C5_TopMarkets ==
    (Recommended /\ ret.kind = "return") =>
        /\ \A i \in TopMarketEntries(ret.value) :
               \E l \in Listings(InputCountries(args.trade_data)) :
                   /\ IsTopListing(args.trade_data, l)
                   /\ ret.value[i].description = ListingText(args.trade_data, l)
        /\ ((\E r \in 1..Len(args.trade_data) : args.trade_data[r].volume_usd # None)
                /\ InputCountries(args.trade_data) # {}
               => TopMarketEntries(ret.value) # {})

\* four countries, one of them on two rows with different volumes, one row
\* without a volume, and a country left out of the listing
C5_Witness ==
    /\ Recommended
    /\ ret.kind = "return"
    /\ Cardinality(InputCountries(args.trade_data)) = 4
    /\ TopMarketEntries(ret.value) = {1}
    /\ args.trade_data[1].volume_usd = Num(1000)
    /\ args.trade_data[5].volume_usd = Num(2000)
    /\ args.trade_data[2].volume_usd = None
    /\ args.trade_data[3].volume_usd = Num(2000)
    /\ args.trade_data[4].volume_usd = Num(1000)
    /\ ret.value[1].description
           = ListingText(args.trade_data, <<S_USA, S_China, S_UK>>)

(***************************************************************************)
(* Properties of export_to_excel (SpecExport)                              *)
(***************************************************************************)
Exported == op = "export_to_excel" /\ pc = "done"

\* the labels of the fields that are non-absent in at least one record
PresentLabels(trade_data) ==
    {FieldAlias(i) : i \in {j \in 1..NumFields :
        \E r \in 1..Len(trade_data) : trade_data[r][FieldName(j)] # None}}

AllLabels == {FieldAlias(i) : i \in 1..NumFields}

NoDuplicates(q) == \A i, j \in 1..Len(q) : i # j => q[i] # q[j]

\* C6 as stated: the columns of the exported table are exactly the labels of
\* the fields with a non-absent value in at least one record.
C6_ColumnsExactlyPresent ==
    Exported =>
        /\ ret.kind = "return"
        /\ Range(ret.value.columns) = PresentLabels(args.trade_data)

\* C6: the columns of the exported table are exactly the labels of the fields
\* with a non-absent value in at least one record, each once, except that a
\* non-empty list whose records have every field absent is exported with the
\* labels of all fields and no data rows.
C6_ColumnsPresentOrAll ==
    Exported =>
        /\ ret.kind = "return"
        /\ NoDuplicates(ret.value.columns)
        /\ IF args.trade_data # <<>> /\ PresentLabels(args.trade_data) = {}
           THEN Range(ret.value.columns) = AllLabels /\ ret.value.rows = 0
           ELSE /\ Range(ret.value.columns) = PresentLabels(args.trade_data)
                /\ ret.value.rows = Len(args.trade_data)

\* two records with different fields present: the union is exported, the
\* fields absent from both are not
C6_Witness ==
    /\ Exported
    /\ Len(args.trade_data) = 2
    /\ args.trade_data[1].hscode # None
    /\ args.trade_data[2].hscode = None
    /\ args.trade_data[2].freight_term # None
    /\ args.trade_data[1].freight_term = None
    /\ Range(ret.value.columns) = {"HS Code", "Freight Term"}

\* C7 as stated: an empty list is exported as a table with the full header
\* row and zero data rows.
C7_EmptyFullHeader ==
    (Exported /\ args.trade_data = <<>>) =>
        /\ ret.kind = "return"
        /\ ret.value.columns = AllHeaders
        /\ ret.value.rows = 0

\* C7: an empty list is exported without failing as an empty table: no
\* header columns and zero data rows.
C7_EmptyTable ==
    (Exported /\ args.trade_data = <<>>) =>
        /\ ret.kind = "return"
        /\ ret.value.columns = <<>>
        /\ ret.value.rows = 0

C7_Witness ==
    /\ Exported
    /\ args.trade_data = <<>>
    /\ ret.kind = "return"
    /\ ret.value = Sheet(<<>>, 0)

(***************************************************************************)
(* Further properties of generate_recommendations (SpecRecommend)          *)
(***************************************************************************)
\* the entries of a reply that carry a title and a description, in reply order
RECURSIVE WellFormedEntries(_)
WellFormedEntries(items) ==
    IF items = <<>> THEN <<>>
    ELSE (IF Head(items).t = "dict" /\ Head(items).title.t = "str"
                /\ Head(items).description.t = "str"
          THEN <<Recommendation(Head(items).title.v, Head(items).description.v)>>
          ELSE <<>>)
             \o WellFormedEntries(Tail(items))

IsSuffix(tail, q) ==
    Len(tail) <= Len(q) /\ SubSeq(q, Len(q) - Len(tail) + 1, Len(q)) = tail

ListReply(reply) == reply.kind = "json" /\ reply.top \in {"list", "recommendations"}

\* C11: for a non-empty list of records and a reply that is a JSON list or an
\* object with a recommendations list, the returned list ends with the
\* entries of the reply that have a title and a description, in reply order.
C11_EntriesAppended ==
    (Recommended /\ ret.kind = "return" /\ args.trade_data # <<>> /\ ListReply(args.reply))
        => IsSuffix(WellFormedEntries(args.reply.items), ret.value)

\* how often a value occurs in a field over the records
Occurrences(trade_data, f, v) ==
    Cardinality({r \in 1..Len(trade_data) : trade_data[r][f] = v})

\* the row of the first record holding one of the most frequent non-absent
\* values of a field
FirstModalRow(trade_data, f) ==
    CHOOSE r \in 1..Len(trade_data) :
        /\ trade_data[r][f] # None
        /\ \A q \in 1..Len(trade_data) :
               trade_data[q][f] # None =>
                   Occurrences(trade_data, f, trade_data[q][f])
                       <= Occurrences(trade_data, f, trade_data[r][f])
        /\ \A q \in 1..(r - 1) :
               trade_data[q][f] # None =>
                   Occurrences(trade_data, f, trade_data[q][f])
                       < Occurrences(trade_data, f, trade_data[r][f])

HasValue(trade_data, f) == \E r \in 1..Len(trade_data) : trade_data[r][f] # None

Names(recommendations, title, text, value) ==
    \E i \in 1..Len(recommendations) :
        /\ recommendations[i].title = title
        /\ recommendations[i].description = text \o value \o <<".">>

\* C12: the freight-term and the package-type recommendations each name the
\* most frequent non-absent value of the field, and among several most
\* frequent values the one met first in record order.
C12_ModeFirstEncountered ==
    (Recommended /\ ret.kind = "return") =>
        /\ (HasValue(args.trade_data, "freight_term") =>
               Names(ret.value, S_FreightTitle, S_FreightText,
                     args.trade_data[FirstModalRow(args.trade_data, "freight_term")]
                         .freight_term))
        /\ (HasValue(args.trade_data, "package_type") =>
               Names(ret.value, S_PackagingTitle, S_PackagingText,
                     args.trade_data[FirstModalRow(args.trade_data, "package_type")]
                         .package_type))

\* a title that names no intent
NeutralTitle(title) ==
    /\ ~Contains(title, S_import)
    /\ ~Contains(title, S_export)
    /\ ~Contains(title, <<"N", "o", "n", "e">>)

\* C13: generate_recommendations on a non-empty list with an absent intent
\* returns a list, with a top-markets recommendation when some record has a
\* volume, and the title of that recommendation names no intent.  Lists whose
\* records have a volume but no country are left aside: they raise at line 243
\* whatever the intent.
C13_AbsentIntentNeutralTitle ==
    (/\ Recommended
     /\ args.trade_data # <<>>
     /\ args.parsed_query.intent = None
     /\ (HasValue(args.trade_data, "volume_usd") => InputCountries(args.trade_data) # {}))
        => /\ ret.kind = "return"
           /\ (HasValue(args.trade_data, "volume_usd") => TopMarketEntries(ret.value) # {})
           /\ \A i \in TopMarketEntries(ret.value) : NeutralTitle(ret.value[i].title)

\* the values of a field that no other value outnumbers
MostFrequent(trade_data, f) ==
    {v \in {trade_data[r][f] : r \in 1..Len(trade_data)} \ {None} :
        \A r \in 1..Len(trade_data) :
            trade_data[r][f] # None =>
                Occurrences(trade_data, f, trade_data[r][f])
                    <= Occurrences(trade_data, f, v)}

Count(b) == IF b THEN 1 ELSE 0

HasTopMarkets(trade_data) ==
    HasValue(trade_data, "volume_usd") /\ InputCountries(trade_data) # {}

\* how many deterministic recommendations a list of records gives
DeterministicCount(trade_data) ==
    Count(HasTopMarkets(trade_data)) + Count(HasValue(trade_data, "freight_term"))
        + Count(HasValue(trade_data, "package_type"))

IsDeterministicTitle(title) ==
    StartsWith(title, S_Top3) \/ title = S_FreightTitle \/ title = S_PackagingTitle

\* recs begins with the deterministic recommendations of the records: top
\* markets, freight term, package type, each when the records give it
DeterministicFirst(trade_data, recs) ==
    LET t == Count(HasTopMarkets(trade_data))
        f == Count(HasValue(trade_data, "freight_term"))
    IN  /\ Len(recs) >= DeterministicCount(trade_data)
        /\ (HasTopMarkets(trade_data) =>
               /\ StartsWith(recs[1].title, S_Top3)
               /\ \E l \in Listings(InputCountries(trade_data)) :
                      /\ IsTopListing(trade_data, l)
                      /\ recs[1].description = ListingText(trade_data, l))
        /\ (HasValue(trade_data, "freight_term") =>
               /\ recs[t + 1].title = S_FreightTitle
               /\ \E v \in MostFrequent(trade_data, "freight_term") :
                      recs[t + 1].description = S_FreightText \o v \o <<".">>)
        /\ (HasValue(trade_data, "package_type") =>
               /\ recs[t + f + 1].title = S_PackagingTitle
               /\ \E v \in MostFrequent(trade_data, "package_type") :
                      recs[t + f + 1].description = S_PackagingText \o v \o <<".">>)

IsPrefix(head, q) == Len(head) <= Len(q) /\ SubSeq(q, 1, Len(head)) = head

\* the recommendations after the deterministic ones
AfterDeterministic(trade_data, recs) ==
    SubSeq(recs, DeterministicCount(trade_data) + 1, Len(recs))

GeneralAdviceOnly == <<Recommendation(S_GeneralAdvice, S_GeneralText)>>

\* C14: the returned list begins with the deterministic recommendations in
\* their generation order, whatever the model step does; when the model call
\* fails or its reply is malformed nothing follows them (the General Advice
\* entry alone when there are none); model entries come only after them, in
\* reply order and with repeated entries kept.
C14_DeterministicKept ==
    (Recommended /\ ret.kind = "return" /\ args.trade_data # <<>>) =>
        LET rest == AfterDeterministic(args.trade_data, ret.value)
        IN  /\ DeterministicFirst(args.trade_data, ret.value)
            /\ \A i \in 1..Len(rest) : ~IsDeterministicTitle(rest[i].title)
            /\ IF DeterministicCount(args.trade_data) = 0 /\ rest = GeneralAdviceOnly
               THEN TRUE
               ELSE /\ Len(ret.value) >= 1
                    /\ IF ListReply(args.reply)
                       THEN IsPrefix(rest, WellFormedEntries(args.reply.items))
                       ELSE rest = <<>>

\* a reply that is not JSON after all three deterministic recommendations
C14_Witness ==
    /\ Recommended
    /\ ret.kind = "return"
    /\ args.reply = RecReply("text", "none", <<>>)
    /\ Len(args.trade_data) = 2
    /\ DeterministicCount(args.trade_data) = 3
    /\ Len(ret.value) = 3
    /\ ret.value[2].title = S_FreightTitle
    /\ ret.value[3].title = S_PackagingTitle

\* a reply with the same entry twice, appended twice after the three
C14_WitnessRepeated ==
    /\ Recommended
    /\ ret.kind = "return"
    /\ DeterministicCount(args.trade_data) = 3
    /\ Len(ret.value) = 5
    /\ ret.value[4] = ret.value[5]

(***************************************************************************)
(* SpecFetch: fetch_data applied to the planned queries of a parsed query, *)
(* starting from an empty processed-link set.                              *)
(***************************************************************************)
FetchQueries ==
    { [hsn_code |-> S_8419, product_name |-> None, country |-> Lower(S_India),
       intent |-> S_export, keywords |-> <<>>],
      [hsn_code |-> S_8419, product_name |-> S_pumps, country |-> None,
       intent |-> S_import, keywords |-> <<>>],
      [hsn_code |-> None, product_name |-> S_pumps, country |-> S_USA,
       intent |-> S_import, keywords |-> <<>>] }

\* the outcomes of one lookup: a failed request, a reply without items, and
\* result lists with repeated, linkless, PDF and Excel candidates
LookupOutcomes ==
    { LookupError,
      LookupNoItems,
      Items(<<L_a>>),
      Items(<<L_a, L_pdf, L_b>>),
      Items(<<L_b, None, L_excel, L_b>>),
      Items(<<L_plain, L_a>>) }

\* the first MaxVariedLookups lookups vary freely, the later ones all end alike
FetchResponses ==
    {[i \in 1..MaxQueries |-> IF i <= MaxVariedLookups THEN o[i] ELSE tail] :
        o \in [1..MaxVariedLookups -> LookupOutcomes],
        tail \in {LookupError, Items(<<L_a>>)}}

InitFetch ==
    /\ pc = "call"
    /\ op = "fetch_data"
    /\ args \in {[search_queries |-> decide_strategy(q), parsed_query |-> q,
                  responses |-> l, draws |-> d] :
                    q \in FetchQueries, l \in FetchResponses,
                    d \in {PipelineDraws, [i \in 1..NumPartners |-> DrawMixed]}}
    /\ ret = NoRet
    /\ scraped_data_cache = {}
    /\ requests = 0
    /\ hash_seed = 0

FetchData ==
    /\ pc = "call"
    /\ op = "fetch_data"
    /\ LET fetched == fetch_data(args.search_queries, args.parsed_query, args.responses,
                                 args.draws, hash_seed, scraped_data_cache)
       IN  /\ ret' = fetched
           /\ scraped_data_cache' = fetched.cache
    /\ pc' = "done"
    /\ UNCHANGED <<op, args, requests, hash_seed>>

NextFetch == FetchData

SpecFetch == InitFetch /\ [][NextFetch]_vars

(***************************************************************************)
(* Properties of fetch_data (SpecFetch)                                    *)
(***************************************************************************)
Fetched == op = "fetch_data" /\ pc = "done"

\* the candidates of the lookups of queries i..Len(search_queries), in
\* discovery order, each with the query that found it; a lookup that failed
\* or replied without items has none
RECURSIVE Candidates(_, _, _)
Candidates(search_queries, responses, i) ==
    IF i > Len(search_queries) THEN <<>>
    ELSE (IF responses[i].kind = "items"
          THEN [k \in 1..Len(responses[i].items) |->
                   [link |-> responses[i].items[k].link, query |-> search_queries[i]]]
          ELSE <<>>)
             \o Candidates(search_queries, responses, i + 1)

EligibleLink(link) ==
    /\ link # None
    /\ link # <<>>
    /\ ~Contains(Lower(link), S_pdf)
    /\ ~Contains(Lower(link), S_excel)

\* the batches of the candidates n..Len(candidates) that are eligible and
\* whose link no earlier candidate has
RECURSIVE Batches(_, _, _, _, _)
Batches(candidates, n, parsed_query, draws, seed) ==
    IF n > Len(candidates) THEN <<>>
    ELSE (IF /\ EligibleLink(candidates[n].link)
             /\ \A m \in 1..(n - 1) : candidates[m].link # candidates[n].link
          THEN simulate_scrape_from_url(candidates[n].link, candidates[n].query,
                                        parsed_query, draws, seed)
          ELSE <<>>)
             \o Batches(candidates, n + 1, parsed_query, draws, seed)

DistinctEligibleLinks(candidates) ==
    {candidates[n].link : n \in {m \in 1..Len(candidates) :
                                    EligibleLink(candidates[m].link)}}

\* C15: from an empty processed-link set, fetch_data returns the batches of
\* the distinct eligible links concatenated in discovery order, one batch per
\* link made at its first occurrence; links with pdf or excel in any letter
\* case give no record, and the links processed are the eligible ones.
C15_OneBatchPerLink ==
    Fetched =>
        LET candidates == Candidates(args.search_queries, args.responses, 1)
        IN  /\ ret.data = Batches(candidates, 1, args.parsed_query, args.draws, hash_seed)
            /\ ret.cache = DistinctEligibleLinks(candidates)
            /\ \A r \in 1..Len(ret.data) :
                   /\ ~Contains(Lower(ret.data[r].source), S_pdf)
                   /\ ret.data[r].source \in {source_of(l) : l \in ret.cache}

\* the same link found twice by one query and again by a later one, next to
\* a PDF link, an Excel link and a candidate without link
C15_Witness ==
    /\ Fetched
    /\ args.responses[1] = Items(<<L_b, None, L_excel, L_b>>)
    /\ args.responses[2] = Items(<<L_a, L_pdf, L_b>>)
    /\ args.responses[3] = Items(<<L_a>>)
    /\ Len(args.search_queries) = MaxQueries
    /\ ret.cache = {L_a, L_b}
    /\ Len(ret.data) = 2 * NumPartners
    /\ ret.data[1].source = source_of(L_b)
    /\ ret.data[NumPartners + 1].source = source_of(L_a)

\* the planned queries whose lookup did not fail, and their responses
RECURSIVE Answering(_, _, _)
Answering(search_queries, responses, i) ==
    IF i > Len(search_queries) THEN <<>>
    ELSE (IF responses[i].kind # "error" THEN <<i>> ELSE <<>>)
             \o Answering(search_queries, responses, i + 1)

\* C16: fetch_data looks up every planned query once, in planner order, and
\* a lookup that fails counts as a lookup without candidates: the records
\* returned are those of the plan without the queries whose lookup failed.
C16_LookupFailureIsolated ==
    Fetched =>
        LET ok == Answering(args.search_queries, args.responses, 1)
            queries == [k \in 1..Len(ok) |-> args.search_queries[ok[k]]]
            responses == [k \in 1..Len(ok) |-> args.responses[ok[k]]]
        IN  /\ ret.lookups = args.search_queries
            /\ ret.data = Batches(Candidates(queries, responses, 1), 1, args.parsed_query,
                                  args.draws, hash_seed)

\* the first lookup fails, the second and the later ones return links
C16_Witness ==
    /\ Fetched
    /\ args.responses[1] = LookupError
    /\ args.responses[2] = Items(<<L_plain, L_a>>)
    /\ Len(args.search_queries) = MaxQueries - 1
    /\ Len(ret.lookups) = MaxQueries - 1
    /\ ret.cache = {L_plain, L_a}
    /\ Len(ret.data) = 2 * NumPartners

(***************************************************************************)
(* Further properties of decide_strategy (SpecDecide)                      *)
(***************************************************************************)
RECURSIVE JoinWords(_)
JoinWords(parts) ==
    IF parts = <<>> THEN <<>>
    ELSE IF Len(parts) = 1 THEN parts[1]
    ELSE parts[1] \o <<" ">> \o JoinWords(Tail(parts))

Present(v) == v # None /\ v # <<>>

\* the parts of the general query, in order.  An intent that is neither
\* import nor export is taken as absent.
GeneralQueryParts(parsed_query) ==
    (IF Present(parsed_query.hsn_code)
     THEN <<<<"H", "S", "N">>, parsed_query.hsn_code>> ELSE <<>>)
    \o (IF Present(parsed_query.product_name) THEN <<parsed_query.product_name>> ELSE <<>>)
    \o (IF parsed_query.intent = S_import THEN <<<<"i", "m", "p", "o", "r", "t", " ", "d", "a", "t", "a">>>>
        ELSE IF parsed_query.intent = S_export THEN <<<<"e", "x", "p", "o", "r", "t", " ", "d", "a", "t", "a">>>>
        ELSE <<<<"t", "r", "a", "d", "e", " ", "d", "a", "t", "a">>>>)
    \o (IF Present(parsed_query.country)
        THEN <<(IF parsed_query.intent = S_export THEN <<"f", "r", "o", "m">> ELSE <<"t", "o">>),
               parsed_query.country>>
        ELSE <<>>)
    \o <<<<"o", "p", "e", "n", " ", "s", "o", "u", "r", "c", "e", " ", "s", "t", "a", "t", "i", "s", "t", "i", "c", "s">>>>

\* C17: decide_strategy returns a non-empty list whose first element is the
\* general query: HS-code token, product name, intent word, country phrase
\* and the suffix "open source statistics", each present part once, in that
\* order; further queries follow exactly when an HS code is present, and then
\* at least three of them contain the HS code.
C17_StrategyStructure ==
    Decided =>
        /\ Len(ret.value) >= 1
        /\ ret.value[1] = JoinWords(GeneralQueryParts(args.parsed_query))
        /\ (Len(ret.value) > 1 <=> Present(args.parsed_query.hsn_code))
        /\ (Present(args.parsed_query.hsn_code) =>
               Cardinality({i \in 2..Len(ret.value) :
                               Contains(ret.value[i], args.parsed_query.hsn_code)}) >= 3)

\* an export query with HS code, product and country: the general query and
\* three source-specific ones
C17_Witness ==
    /\ Decided
    /\ args.parsed_query.intent = S_export
    /\ args.parsed_query.country = S_Germany
    /\ ret.value[1] = <<"H", "S", "N", " ", "8", "4", "1", "9", " ", "g", "a", "s", " ", "p", "u", "m", "p", "s", " ", "e", "x", "p", "o", "r", "t", " ", "d", "a", "t", "a", " ", "f", "r", "o", "m", " ", "G", "e", "r", "m", "a", "n", "y", " ", "o", "p", "e", "n", " ", "s", "o", "u", "r", "c", "e", " ", "s", "t", "a", "t", "i", "s", "t", "i", "c", "s">>
    /\ Len(ret.value) = 4
    /\ \A i \in 2..4 : Contains(ret.value[i], S_8419)

====
